---- MODULE Spec2Model ----
(***************************************************************************)
(* Model of charon's message_t (Source/charon/encoding/message.c): the     *)
(* IKEv2 message container with its static rule table, add_payload,        *)
(* generate (encrypt pass + emission), parse_header, parse_body (parse     *)
(* loop + decrypt pass), verify and destroy.                               *)
(*                                                                         *)
(* One Message object is modelled.  Payload objects are records carrying   *)
(* an identity, so that ownership (who destroys what, and how often) can   *)
(* be followed through the heap.  The wire form is a header record and a   *)
(* chain of payload records that carry only their next-type field: the     *)
(* type of a payload on the wire is what its predecessor announces.        *)
(***************************************************************************)
EXTENDS Integers, Sequences, FiniteSets, TLC

(***************************************************************************)
(* Bounds of the model.                                                    *)
(***************************************************************************)
\* longest payload list the caller builds freely out of AddTypes
MaxLen == 2

(***************************************************************************)
(* Enumerations.                                                           *)
(***************************************************************************)
ExchangeTypes == {"EXCHANGE_TYPE_UNDEFINED", "IKE_SA_INIT", "IKE_AUTH",
                  "CREATE_CHILD_SA", "INFORMATIONAL"}

PayloadTypes == {"SECURITY_ASSOCIATION", "KEY_EXCHANGE", "ID_INITIATOR",
                 "ID_RESPONDER", "CERTIFICATE", "CERTIFICATE_REQUEST",
                 "AUTHENTICATION", "NONCE", "NOTIFY",
                 "TRAFFIC_SELECTOR_INITIATOR", "TRAFFIC_SELECTOR_RESPONDER",
                 "ENCRYPTED"}

\* values an uninitialised u_int8_t field is drawn from
UninitByte == {0, 2}

MessageIds == {0, 1}

\* ike_sa_id_t values; NoSaId is the NULL pointer
NoSaId == [initiator_spi |-> 0, responder_spi |-> 0, is_initiator |-> FALSE,
           null |-> TRUE]

SaIdA == [initiator_spi |-> 1, responder_spi |-> 0, is_initiator |-> TRUE,
          null |-> FALSE]

SaIdB == [initiator_spi |-> 1, responder_spi |-> 2, is_initiator |-> FALSE,
          null |-> FALSE]

(***************************************************************************)
(* Wire form.  A header record, and a chain of payload records.  ok tells  *)
(* whether the octets parse ("malformed" if not) and whether the parsed    *)
(* object passes its own verify ("invalid" if not).                        *)
(***************************************************************************)
Hdr(x, mid, resp, sa, maj, min, nxt, k) ==
    [exchange_type |-> x, message_id |-> mid, response_flag |-> resp,
     initiator_spi |-> sa.initiator_spi, responder_spi |-> sa.responder_spi,
     initiator_flag |-> sa.is_initiator, maj_version |-> maj,
     min_version |-> min, next |-> nxt, ok |-> k]

WirePayload(n, inn, m, d, k) ==
    [next |-> n, inner |-> inn, mac |-> m, dec |-> d, ok |-> k]

\* empty chunk of a packet (data.ptr = NULL)
NoData == [hdr |-> Hdr("EXCHANGE_TYPE_UNDEFINED", 0, FALSE, NoSaId, 0, 0,
                       "NO_PAYLOAD", "ok"),
           chain |-> <<>>, empty |-> TRUE]

(***************************************************************************)
(* The static rule table.                                                  *)
(***************************************************************************)
Entry(t, mn, mx, e) ==
    [payload_type |-> t, min_occurence |-> mn, max_occurence |-> mx,
     encrypted |-> e]

supported_ike_sa_init_i_payloads ==
    << Entry("SECURITY_ASSOCIATION", 1, 1, FALSE),
       Entry("KEY_EXCHANGE", 1, 1, FALSE),
       Entry("NONCE", 1, 1, FALSE) >>

supported_ike_sa_init_r_payloads ==
    << Entry("SECURITY_ASSOCIATION", 1, 1, FALSE),
       Entry("KEY_EXCHANGE", 1, 1, FALSE),
       Entry("NONCE", 1, 1, FALSE) >>

supported_ike_auth_i_payloads ==
    << Entry("ID_INITIATOR", 1, 1, TRUE),
       Entry("CERTIFICATE", 0, 1, TRUE),
       Entry("CERTIFICATE_REQUEST", 0, 1, TRUE),
       Entry("ID_RESPONDER", 0, 1, TRUE),
       Entry("AUTHENTICATION", 1, 1, TRUE),
       Entry("SECURITY_ASSOCIATION", 1, 1, TRUE),
       Entry("TRAFFIC_SELECTOR_INITIATOR", 1, 1, TRUE),
       Entry("TRAFFIC_SELECTOR_RESPONDER", 1, 1, TRUE) >>

supported_ike_auth_r_payloads ==
    << Entry("CERTIFICATE", 0, 1, TRUE),
       Entry("ID_RESPONDER", 0, 1, TRUE),
       Entry("AUTHENTICATION", 1, 1, TRUE),
       Entry("SECURITY_ASSOCIATION", 1, 1, TRUE),
       Entry("TRAFFIC_SELECTOR_INITIATOR", 1, 1, TRUE),
       Entry("TRAFFIC_SELECTOR_RESPONDER", 1, 1, TRUE) >>

Rule(x, r, e, s) ==
    [exchange_type |-> x, is_request |-> r, encrypted_content |-> e,
     supported_payloads |-> s]

message_rules ==
    << Rule("IKE_SA_INIT", TRUE, FALSE, supported_ike_sa_init_i_payloads),
       Rule("IKE_SA_INIT", FALSE, FALSE, supported_ike_sa_init_r_payloads),
       Rule("IKE_AUTH", TRUE, TRUE, supported_ike_auth_i_payloads),
       Rule("IKE_AUTH", FALSE, TRUE, supported_ike_auth_r_payloads) >>

\* the NULL rule / NULL entry stored through the out-parameter on NOT_FOUND
NullRule == Rule("EXCHANGE_TYPE_UNDEFINED", FALSE, FALSE, <<>>)

NullEntry == Entry("NO_PAYLOAD", 0, 0, FALSE)

(***************************************************************************)
(* get_message_rule: first record of the table whose exchange type and     *)
(* direction both match.                                                   *)
(***************************************************************************)
RuleMatches_DirectionOnly(x, r, rec) == r = rec.is_request

RuleMatches(x, r, rec) == x = rec.exchange_type /\ r = rec.is_request

RECURSIVE RuleScan(_, _, _)
RuleScan(x, r, i) ==
    IF i > Len(message_rules)
    THEN [status |-> "NOT_FOUND", rule |-> NullRule]
    ELSE IF RuleMatches(x, r, message_rules[i])
         THEN [status |-> "SUCCESS", rule |-> message_rules[i]]
         ELSE RuleScan(x, r, i + 1)

get_message_rule_FirstRecord(x, r) ==
    [status |-> "SUCCESS", rule |-> message_rules[1]]

get_message_rule(x, r) == RuleScan(x, r, 1)

(***************************************************************************)
(* get_supported_payload_entry: first entry of the rule with the type.     *)
(***************************************************************************)
RECURSIVE EntryScan(_, _, _)
EntryScan(rule, t, i) ==
    IF i > Len(rule.supported_payloads)
    THEN [status |-> "NOT_FOUND", entry |-> NullEntry]
    ELSE IF rule.supported_payloads[i].payload_type = t
         THEN [status |-> "SUCCESS", entry |-> rule.supported_payloads[i]]
         ELSE EntryScan(rule, t, i + 1)

get_supported_payload_entry(rule, t) == EntryScan(rule, t, 1)

(***************************************************************************)
(* Payload objects.  id is the object's identity; enc is a ghost field     *)
(* telling that the object was parsed out of an Encryption payload; inner, *)
(* mac, dec and tf describe an Encryption payload: the types of the        *)
(* payloads in its ciphertext, whether its checksum verifies, whether its  *)
(* plaintext parses, and whether transforms are bound.                     *)
(***************************************************************************)
Payload(i, t, n, e, inn, m, d, f) ==
    [id |-> i, type |-> t, next |-> n, enc |-> e,
     inner |-> inn, mac |-> m, dec |-> d, tf |-> f]

Plain(i, t, n, e) == Payload(i, t, n, e, <<>>, TRUE, TRUE, FALSE)

Types(list) == [k \in DOMAIN list |-> list[k].type]

Ids(list) == {list[k].id : k \in DOMAIN list}

SetNext(p, t) == [p EXCEPT !.next = t]

(***************************************************************************)
(* State of the Message and of the heap of payload objects.                *)
(***************************************************************************)
VARIABLES
    major_version,   \* this->major_version
    minor_version,   \* this->minor_version
    first_payload,   \* this->first_payload
    exchange_type,   \* this->exchange_type
    is_request,      \* this->is_request
    message_id,      \* this->message_id
    ike_sa_id,       \* this->ike_sa_id (NoSaId = NULL)
    packet,          \* this->packet: source, destination set?, data
    payloads,        \* this->payloads, first to last
    parser,          \* this->parser: units of the packet consumed so far
    heap,            \* heap[id] = how often payload object id was destroyed
    life,            \* "alive", "destroyed", "crashed" or "corrupt"
    op,              \* last operation that returned a status
    status,          \* the status it returned
    out,             \* the packet it handed to the caller
    calls,           \* the calls it made on collaborators, in order
    orig,            \* the Message as it was before its last successful generate
    peer             \* the other Message of the process (NoPeer = none)

vars == << major_version, minor_version, first_payload, exchange_type,
           is_request, message_id, ike_sa_id, packet, payloads, parser,
           heap, life, op, status, out, calls, orig, peer >>

meta == << major_version, minor_version, first_payload, exchange_type,
           is_request, message_id, ike_sa_id >>

NoOrig == [set |-> FALSE, exchange_type |-> "EXCHANGE_TYPE_UNDEFINED",
           is_request |-> TRUE, message_id |-> 0, ike_sa_id |-> NoSaId,
           types |-> <<>>]


(***************************************************************************)
(* Inputs.  The caller builds every list over AddTypes up to MaxLen, and   *)
(* the lists of the end-to-end scenarios payload by payload.               *)
(***************************************************************************)
AddTypes == {"SECURITY_ASSOCIATION", "NOTIFY", "ENCRYPTED"}

IkeSaInitList == << "SECURITY_ASSOCIATION", "KEY_EXCHANGE", "NONCE" >>

IkeSaInitAuthList ==
    << "SECURITY_ASSOCIATION", "KEY_EXCHANGE", "NONCE", "AUTHENTICATION" >>

IkeAuthRList ==
    << "ID_RESPONDER", "AUTHENTICATION", "SECURITY_ASSOCIATION",
       "TRAFFIC_SELECTOR_INITIATOR", "TRAFFIC_SELECTOR_RESPONDER" >>

IkeAuthIList ==
    << "ID_INITIATOR", "AUTHENTICATION", "SECURITY_ASSOCIATION",
       "TRAFFIC_SELECTOR_INITIATOR", "TRAFFIC_SELECTOR_RESPONDER" >>

ScenarioLists ==
    {IkeSaInitList, IkeSaInitAuthList, IkeAuthRList, IkeAuthIList}

SeqsUpTo(S, n) == UNION {[1..k -> S] : k \in 0..n}

Prefixes(l) == {SubSeq(l, 1, k) : k \in 0..Len(l)}

AllowedLists ==
    SeqsUpTo(AddTypes, MaxLen) \cup UNION {Prefixes(l) : l \in ScenarioLists}

\* plaintexts of the Encryption payloads of received packets
InnerLists == { <<>>, << "NOTIFY" >>, << "AUTHENTICATION" >>, IkeAuthRList }

\* statuses of status_t that occur
Statuses == {"SUCCESS", "FAILED", "NOT_FOUND", "NOT_SUPPORTED",
             "INVALID_STATE", "PARSE_ERROR", "VERIFY_ERROR"}

(***************************************************************************)
(* Received packets: the chain of a list of types, each payload carrying   *)
(* the type of its successor; every Encryption payload of the packet has   *)
(* the plaintext inn, checksum state m and plaintext state d; the last     *)
(* payload has the defect k.                                               *)
(***************************************************************************)
WireChain(types, inn, m, d, k) ==
    [i \in DOMAIN types |->
        WirePayload(IF i < Len(types) THEN types[i + 1] ELSE "NO_PAYLOAD",
                    IF types[i] = "ENCRYPTED" THEN inn ELSE <<>>,
                    IF types[i] = "ENCRYPTED" THEN m ELSE TRUE,
                    IF types[i] = "ENCRYPTED" THEN d ELSE TRUE,
                    IF i = Len(types) THEN k ELSE "ok")]

FirstType(types) == IF types = <<>> THEN "NO_PAYLOAD" ELSE types[1]

WirePacket(x, resp, hk, types, inn, m, d, k) ==
    [hdr |-> Hdr(x, 1, resp, SaIdB, 2, 0, FirstType(types), hk),
     chain |-> WireChain(types, inn, m, d, k), empty |-> FALSE]

HasEnvelope(types) == \E i \in DOMAIN types : types[i] = "ENCRYPTED"

ReceivedExchanges == {"IKE_SA_INIT", "IKE_AUTH", "INFORMATIONAL"}

ReceivedPackets ==
    {WirePacket(x, resp, "ok", t, <<>>, TRUE, TRUE, "ok") :
        x \in ReceivedExchanges, resp \in BOOLEAN,
        t \in {l \in AllowedLists : ~HasEnvelope(l)}}
    \cup
    {WirePacket(x, resp, "ok", t, inn, TRUE, TRUE, "ok") :
        x \in ReceivedExchanges, resp \in BOOLEAN,
        t \in {l \in AllowedLists : HasEnvelope(l)}, inn \in InnerLists}
    \cup
    {WirePacket(x, resp, "ok", t, IkeAuthRList, md[1], md[2], "ok") :
        x \in ReceivedExchanges, resp \in BOOLEAN,
        t \in {l \in AllowedLists : HasEnvelope(l)},
        md \in {<<FALSE, TRUE>>, <<TRUE, FALSE>>, <<FALSE, FALSE>>}}
    \cup
    {WirePacket("IKE_SA_INIT", FALSE, "ok", t, <<>>, TRUE, TRUE, k) :
        t \in {l \in AllowedLists : l # <<>> /\ ~HasEnvelope(l)},
        k \in {"malformed", "invalid"}}
    \cup
    {WirePacket("IKE_SA_INIT", TRUE, hk, IkeSaInitList, <<>>, TRUE, TRUE, "ok") :
        hk \in {"malformed", "invalid"}}

(***************************************************************************)
(* message_create_from_packet / message_create.  The version fields are    *)
(* not assigned by the constructor.                                        *)
(***************************************************************************)
message_create_from_packet(data, received) ==
    /\ major_version \in UninitByte
    /\ minor_version \in UninitByte
    /\ exchange_type = "EXCHANGE_TYPE_UNDEFINED"
    /\ is_request = TRUE
    /\ ike_sa_id = NoSaId
    /\ first_payload = "NO_PAYLOAD"
    /\ message_id = 0
    /\ packet = [source |-> received, destination |-> received, data |-> data]
    /\ payloads = <<>>
    /\ parser = [data |-> data, pos |-> 0]
    /\ heap = <<>>
    /\ life = "alive"
    /\ op = "create"
    /\ status = "SUCCESS"
    /\ out = NoData
    /\ calls = <<>>
    /\ orig = NoOrig

message_create == message_create_from_packet(NoData, FALSE)

NoPeer == [life |-> "none"]

Init ==
    /\ \/ message_create
       \/ \E p \in ReceivedPackets : message_create_from_packet(p, TRUE)
    /\ peer = NoPeer

(***************************************************************************)
(* Setters.  The caller sets the fields of a Message it builds, before a   *)
(* packet exists for it.                                                   *)
(***************************************************************************)
Outbound == life = "alive" /\ packet.data.empty /\ parser.data.empty

\* op, status, out and calls describe the last operation that returned a
\* status; an operation that returns none leaves no such record
NoStatus ==
    /\ op' = "none"
    /\ status' = "SUCCESS"
    /\ out' = NoData
    /\ calls' = <<>>

set_ike_sa_id ==
    /\ UNCHANGED peer
    /\ Outbound
    /\ NoStatus
    /\ \E sa \in {SaIdA} : ike_sa_id' = sa
    /\ UNCHANGED << major_version, minor_version, first_payload,
                    exchange_type, is_request, message_id, packet, payloads,
                    parser, heap, life, orig >>

set_message_id ==
    /\ UNCHANGED peer
    /\ Outbound
    /\ NoStatus
    /\ \E m \in MessageIds : message_id' = m
    /\ UNCHANGED << major_version, minor_version, first_payload,
                    exchange_type, is_request, ike_sa_id, packet, payloads,
                    parser, heap, life, orig >>

set_major_version ==
    /\ UNCHANGED peer
    /\ Outbound
    /\ NoStatus
    /\ \E v \in UninitByte : major_version' = v
    /\ UNCHANGED << minor_version, first_payload, exchange_type, is_request,
                    message_id, ike_sa_id, packet, payloads, parser, heap,
                    life, orig >>

set_minor_version ==
    /\ UNCHANGED peer
    /\ Outbound
    /\ NoStatus
    /\ \E v \in UninitByte : minor_version' = v
    /\ UNCHANGED << major_version, first_payload, exchange_type, is_request,
                    message_id, ike_sa_id, packet, payloads, parser, heap,
                    life, orig >>

set_exchange_type ==
    /\ UNCHANGED peer
    /\ Outbound
    /\ NoStatus
    /\ \E x \in ExchangeTypes : exchange_type' = x
    /\ UNCHANGED << major_version, minor_version, first_payload, is_request,
                    message_id, ike_sa_id, packet, payloads, parser, heap,
                    life, orig >>

set_request ==
    /\ UNCHANGED peer
    /\ Outbound
    /\ NoStatus
    /\ \E r \in BOOLEAN : is_request' = r
    /\ UNCHANGED << major_version, minor_version, first_payload,
                    exchange_type, message_id, ike_sa_id, packet, payloads,
                    parser, heap, life, orig >>

set_source ==
    /\ UNCHANGED peer
    /\ Outbound
    /\ NoStatus
    /\ packet' = [packet EXCEPT !.source = TRUE]
    /\ UNCHANGED << meta, payloads, parser, heap, life, orig >>

set_destination ==
    /\ UNCHANGED peer
    /\ Outbound
    /\ NoStatus
    /\ packet' = [packet EXCEPT !.destination = TRUE]
    /\ UNCHANGED << meta, payloads, parser, heap, life, orig >>

(***************************************************************************)
(* add_payload: link the previous tail to the new payload, or record the   *)
(* first payload; terminate the chain at the new payload; append.  The     *)
(* caller adds payloads to the Messages it builds, before a packet exists. *)
(***************************************************************************)
AddLink(list, p) ==
    IF Len(list) > 0
    THEN [list EXCEPT ![Len(list)] = SetNext(list[Len(list)], p.type)]
    ELSE list

AddFirst(list, first, p) == IF Len(list) > 0 THEN first ELSE p.type

AddPayload(list, p) == Append(AddLink(list, p), SetNext(p, "NO_PAYLOAD"))

\* the payload objects a caller hands over: a fresh object of each type; an
\* Encryption payload of the caller is empty, with or without transforms
CallerPayloads(id) ==
    {Plain(id, t, "NO_PAYLOAD", FALSE) : t \in PayloadTypes \ {"ENCRYPTED"}}
    \cup {Payload(id, "ENCRYPTED", "NO_PAYLOAD", FALSE, <<>>, TRUE, TRUE, f) :
            f \in BOOLEAN}

add_payload ==
    /\ UNCHANGED peer
    /\ Outbound
    /\ NoStatus
    /\ \E p \in CallerPayloads(Len(heap) + 1) :
          /\ Append(Types(payloads), p.type) \in AllowedLists
          /\ first_payload' = AddFirst(payloads, first_payload, p)
          /\ payloads' = AddPayload(payloads, p)
          /\ heap' = Append(heap, 0)
    /\ UNCHANGED << major_version, minor_version, exchange_type, is_request,
                    message_id, ike_sa_id, packet, parser, life, orig >>

(***************************************************************************)
(* encrypt_payloads.  All payloads are moved to a temporary list, which is *)
(* then drained: a payload whose entry is marked encrypted sets to_encrypt *)
(* and leaves the loop; every other payload reaches the test of to_encrypt *)
(* with to_encrypt = FALSE and is put back with insert_last.  What is left *)
(* in the temporary list when it is destroyed belongs to no list any more. *)
(* inner is the list of the Encryption payload (NULL while empty).         *)
(***************************************************************************)
MustEncrypt(se) == se.status = "SUCCESS" /\ se.entry.encrypted

RECURSIVE EncryptLoop(_, _, _, _)
EncryptLoop(rule, all, outer, inner) ==
    IF all = <<>>
    THEN [outer |-> outer, inner |-> inner, dropped |-> <<>>]
    ELSE LET current_payload == Head(all)
             se == get_supported_payload_entry(rule, current_payload.type)
         IN IF MustEncrypt(se)
            THEN \* to_encrypt = TRUE; break
                 [outer |-> outer, inner |-> inner, dropped |-> all]
            ELSE LET to_encrypt == FALSE
                 IN IF to_encrypt
                    THEN EncryptLoop(rule, Tail(all), outer,
                                     Append(inner, current_payload))
                    ELSE EncryptLoop(rule, Tail(all),
                                     Append(outer, current_payload), inner)

encrypt_payloads_Drops(x, r, list, first, id) ==
    [status |-> "SUCCESS", payloads |-> <<>>, first_payload |-> first,
     created |-> FALSE, calls |-> <<>>]

\* id is the identity a new Encryption payload would get
encrypt_payloads(x, r, list, first, id) ==
    LET mr == get_message_rule(x, r)
        nothing == [status |-> mr.status, payloads |-> list,
                    first_payload |-> first, created |-> FALSE,
                    calls |-> <<>>]
    IN IF mr.status # "SUCCESS"
       THEN nothing
       ELSE IF ~mr.rule.encrypted_content
            THEN [nothing EXCEPT !.status = "SUCCESS"]
            ELSE LET l == EncryptLoop(mr.rule, list, <<>>, <<>>)
                     envelope == Payload(id, "ENCRYPTED", "NO_PAYLOAD", FALSE,
                                         Types(l.inner), TRUE, TRUE, TRUE)
                 IN IF l.inner # <<>>
                    THEN [status |-> "SUCCESS",
                          payloads |-> AddPayload(l.outer, envelope),
                          first_payload |-> AddFirst(l.outer, first, envelope),
                          created |-> TRUE,
                          calls |-> << [fn |-> "set_transforms", ret |-> "-"],
                                       [fn |-> "encrypt", ret |-> "SUCCESS"] >>]
                    ELSE [status |-> "SUCCESS", payloads |-> l.outer,
                          first_payload |-> first, created |-> FALSE,
                          calls |-> <<>>]

(***************************************************************************)
(* generate.  The header is built from the Message's fields with the       *)
(* versions of a new ike_header_t; the walk sets the next type of the      *)
(* header and of every payload to the type of its successor and emits it.  *)
(***************************************************************************)
Chained_Unlinked(list) == list

Chained(list) ==
    [i \in DOMAIN list |->
        SetNext(list[i], IF i < Len(list) THEN list[i + 1].type
                         ELSE "NO_PAYLOAD")]

Emit(list, signed) ==
    [i \in DOMAIN list |->
        WirePayload(list[i].next, list[i].inner,
                    IF list[i].type = "ENCRYPTED" THEN signed ELSE TRUE,
                    TRUE, "ok")]

LastType(list) == IF list = <<>> THEN "HEADER" ELSE list[Len(list)].type

\* With an empty list the walk leaves payload pointing to the header, which
\* is destroyed before payload->get_type() is compared with ENCRYPTED: the
\* comparison reads a freed object and may come out either way (TRUE: the
\* stale read gave ENCRYPTED).
StaleHeaderReads(list) == IF list = <<>> THEN BOOLEAN ELSE {FALSE}

\* build_signature of the Encryption payload: fails without transforms
build_signature(p) == IF p.tf THEN "SUCCESS" ELSE "INVALID_STATE"

EndpointsUnset_Unchecked(p) == FALSE

EndpointsUnset(p) == ~p.source \/ ~p.destination

generate_fail(st) ==
    /\ op' = "generate"
    /\ status' = st
    /\ out' = NoData
    /\ calls' = <<>>
    /\ UNCHANGED << meta, packet, payloads, parser, heap, life, orig >>

generate ==
    /\ UNCHANGED peer
    /\ life = "alive"
    /\ parser.data.empty
    /\ IF exchange_type = "EXCHANGE_TYPE_UNDEFINED"
       THEN generate_fail("INVALID_STATE")
       ELSE IF EndpointsUnset(packet)
       THEN generate_fail("INVALID_STATE")
       ELSE \E stale \in StaleHeaderReads(
                            encrypt_payloads(exchange_type, is_request,
                                             payloads, first_payload,
                                             Len(heap) + 1).payloads) :
            LET e == encrypt_payloads(exchange_type, is_request, payloads,
                                      first_payload, Len(heap) + 1)
                list == Chained(e.payloads)
                sign == LastType(list) = "ENCRYPTED"
                sig == IF sign THEN build_signature(list[Len(list)])
                       ELSE "SUCCESS"
                data == [hdr |-> Hdr(exchange_type, message_id, ~is_request,
                                     ike_sa_id, 2, 0,
                                     FirstType(Types(list)), "ok"),
                         chain |-> Emit(list, sig = "SUCCESS"),
                         empty |-> FALSE]
            IN IF e.status # "SUCCESS"
               THEN generate_fail(e.status)
               ELSE IF ike_sa_id.null
               THEN \* this->ike_sa_id->is_initiator() through a NULL pointer
                    /\ life' = "crashed"
                    /\ op' = "generate"
                    /\ status' = "NONE"
                    /\ out' = NoData
                    /\ calls' = e.calls
                    /\ payloads' = e.payloads
                    /\ first_payload' = e.first_payload
                    /\ heap' = IF e.created THEN Append(heap, 0) ELSE heap
                    /\ UNCHANGED << major_version, minor_version,
                                    exchange_type, is_request, message_id,
                                    ike_sa_id, packet, parser, orig >>
               ELSE IF stale
               THEN \* payload->get_type() of the destroyed header gave
                    \* ENCRYPTED: build_signature through the freed object
                    /\ life' = "crashed"
                    /\ op' = "generate"
                    /\ status' = "NONE"
                    /\ out' = NoData
                    /\ calls' = e.calls
                          \o << [fn |-> "generate_payload", ret |-> "-"],
                                [fn |-> "write_to_chunk", ret |-> "-"],
                                [fn |-> "build_signature", ret |-> "-"] >>
                    /\ payloads' = list
                    /\ first_payload' = e.first_payload
                    /\ heap' = IF e.created THEN Append(heap, 0) ELSE heap
                    /\ packet' = [packet EXCEPT !.data = data]
                    /\ UNCHANGED << major_version, minor_version,
                                    exchange_type, is_request, message_id,
                                    ike_sa_id, parser, orig >>
               ELSE /\ op' = "generate"
                    /\ payloads' = list
                    /\ first_payload' = e.first_payload
                    /\ heap' = IF e.created THEN Append(heap, 0) ELSE heap
                    /\ packet' = [packet EXCEPT !.data = data]
                    /\ calls' = e.calls
                          \o [i \in 1..(Len(list) + 1) |->
                                [fn |-> "generate_payload", ret |-> "-"]]
                          \o << [fn |-> "write_to_chunk", ret |-> "-"] >>
                          \o (IF sign
                              THEN << [fn |-> "build_signature", ret |-> sig] >>
                              ELSE <<>>)
                          \o (IF sig = "SUCCESS"
                              THEN << [fn |-> "clone", ret |-> "-"] >>
                              ELSE <<>>)
                    /\ status' = sig
                    /\ out' = IF sig = "SUCCESS" THEN data ELSE NoData
                    /\ orig' = IF sig = "SUCCESS"
                               THEN [set |-> TRUE,
                                     exchange_type |-> exchange_type,
                                     is_request |-> is_request,
                                     message_id |-> message_id,
                                     ike_sa_id |-> ike_sa_id,
                                     types |-> Types(payloads)]
                               ELSE orig
                    /\ UNCHANGED << major_version, minor_version,
                                    exchange_type, is_request, message_id,
                                    ike_sa_id, parser, life >>

(***************************************************************************)
(* parse_header.  The parser is rewound and parses the header; a header    *)
(* that does not parse (no octets, malformed, major version other than 2)  *)
(* gives PARSE_ERROR, one that fails its own verify gives that status.     *)
(* The header of a Message is parsed once: the action is taken while the   *)
(* parser has consumed nothing.                                            *)
(***************************************************************************)
HeaderParses(d) == ~d.empty /\ d.hdr.ok # "malformed" /\ d.hdr.maj_version = 2

HeaderVerify(h) == IF h.ok = "invalid" THEN "FAILED" ELSE "SUCCESS"

IsRequestOf_Flag(h) == h.response_flag

IsRequestOf(h) == ~h.response_flag

parse_header ==
    /\ UNCHANGED peer
    /\ life = "alive"
    /\ parser.pos = 0
    /\ op' = "parse_header"
    /\ out' = NoData
    /\ calls' = <<>>
    /\ LET h == parser.data.hdr
       IN IF ~HeaderParses(parser.data)
          THEN /\ status' = "PARSE_ERROR"
               /\ parser' = [parser EXCEPT !.pos = 0]
               /\ UNCHANGED meta
          ELSE IF HeaderVerify(h) # "SUCCESS"
          THEN /\ status' = HeaderVerify(h)
               /\ parser' = [parser EXCEPT !.pos = 1]
               /\ UNCHANGED meta
          ELSE /\ status' = "SUCCESS"
               /\ parser' = [parser EXCEPT !.pos = 1]
               /\ ike_sa_id' = [initiator_spi |-> h.initiator_spi,
                                responder_spi |-> h.responder_spi,
                                is_initiator |-> h.initiator_flag,
                                null |-> FALSE]
               /\ exchange_type' = h.exchange_type
               /\ message_id' = h.message_id
               /\ is_request' = IsRequestOf(h)
               /\ major_version' = h.maj_version
               /\ minor_version' = h.min_version
               /\ first_payload' = h.next
    /\ UNCHANGED << packet, payloads, heap, life, orig >>

(***************************************************************************)
(* parse_body, first part: the parse loop.  parse_payload builds an object *)
(* of the announced type from the unit under the cursor; the object fails  *)
(* its own verify when the unit is "invalid".                              *)
(***************************************************************************)
parse_payload(ps, type, id) ==
    IF ps.data.empty \/ ps.pos < 1 \/ ps.pos > Len(ps.data.chain)
    THEN [status |-> "PARSE_ERROR", pos |-> ps.pos, valid |-> FALSE,
          payload |-> Plain(id, type, "NO_PAYLOAD", FALSE)]
    ELSE LET w == ps.data.chain[ps.pos]
         IN IF w.ok = "malformed"
            THEN [status |-> "PARSE_ERROR", pos |-> ps.pos, valid |-> FALSE,
                  payload |-> Plain(id, type, "NO_PAYLOAD", FALSE)]
            ELSE [status |-> "SUCCESS", pos |-> ps.pos + 1,
                  valid |-> w.ok # "invalid",
                  payload |-> Payload(id, type, w.next, FALSE, w.inner,
                                      w.mac, w.dec, FALSE)]

Rejected_Ignored(r) == FALSE

\* status of current_payload->verify is not SUCCESS
Rejected(r) == ~r.valid

RECURSIVE ParseLoop(_, _, _, _)
ParseLoop(current_payload_type, ps, list, h) ==
    IF current_payload_type = "NO_PAYLOAD"
    THEN [status |-> "SUCCESS", payloads |-> list, parser |-> ps, heap |-> h]
    ELSE LET r == parse_payload(ps, current_payload_type, Len(h) + 1)
         IN IF r.status # "SUCCESS"
            THEN [status |-> r.status, payloads |-> list, parser |-> ps,
                  heap |-> h]
            ELSE IF Rejected(r)
            THEN \* current_payload->destroy
                 [status |-> "VERIFY_ERROR", payloads |-> list,
                  parser |-> [ps EXCEPT !.pos = r.pos],
                  heap |-> Append(h, 1)]
            ELSE ParseLoop(r.payload.next, [ps EXCEPT !.pos = r.pos],
                           Append(list, r.payload), Append(h, 0))

(***************************************************************************)
(* verify: for every entry of the rule, walk the list counting the         *)
(* payloads of the entry's type.                                           *)
(***************************************************************************)
TooMany(found, entry) == found > entry.max_occurence

TooFew_Unchecked(found, entry) == FALSE

TooFew(found, entry) == found < entry.min_occurence

\* the inner while loop; -1 stands for the return from inside the loop
RECURSIVE CountLoop(_, _, _, _)
CountLoop(list, entry, j, found) ==
    IF j > Len(list)
    THEN found
    ELSE IF list[j].type = entry.payload_type
         THEN IF TooMany(found + 1, entry)
              THEN -1
              ELSE CountLoop(list, entry, j + 1, found + 1)
         ELSE CountLoop(list, entry, j + 1, found)

RECURSIVE VerifyLoop(_, _, _)
VerifyLoop(rule, list, i) ==
    IF i > Len(rule.supported_payloads)
    THEN "SUCCESS"
    ELSE LET entry == rule.supported_payloads[i]
             found == CountLoop(list, entry, 1, 0)
         IN IF found = -1
            THEN "NOT_SUPPORTED"
            ELSE IF TooFew(found, entry)
                 THEN "NOT_SUPPORTED"
                 ELSE VerifyLoop(rule, list, i + 1)

VerifyStatus(x, r, list) ==
    LET mr == get_message_rule(x, r)
    IN IF mr.status # "SUCCESS"
       THEN mr.status
       ELSE VerifyLoop(mr.rule, list, 1)

verify ==
    /\ UNCHANGED peer
    /\ life = "alive"
    /\ op' = "verify"
    /\ status' = VerifyStatus(exchange_type, is_request, payloads)
    /\ out' = NoData
    /\ calls' = <<>>
    /\ UNCHANGED << meta, packet, payloads, parser, heap, life, orig >>

(***************************************************************************)
(* The Encryption payload, as far as the decrypt pass uses it.             *)
(***************************************************************************)
verify_signature(p) == IF p.mac THEN "SUCCESS" ELSE "INVALID_STATE"

decrypt(p) == IF p.dec THEN "SUCCESS" ELSE "PARSE_ERROR"

\* the payload objects decrypt() builds from the plaintext, owned by p
InnerPayloads(p, base) ==
    [k \in DOMAIN p.inner |->
        Plain(base + k, p.inner[k],
              IF k < Len(p.inner) THEN p.inner[k + 1] ELSE "NO_PAYLOAD",
              TRUE)]

\* destroy() of an Encryption payload destroys it and the payloads it owns
DestroyEnvelope(h, p, inner) ==
    [k \in 1..(Len(h) + Len(inner)) |->
        IF k > Len(h) THEN 1
        ELSE IF k = p.id THEN h[k] + 1 ELSE h[k]]

Call(f, r) == [fn |-> f, ret |-> r]

(***************************************************************************)
(* decrypt_payloads.  An outcome is what one run of the pass leaves: the   *)
(* status, the list, the heap, the calls made, and whether the run went    *)
(* through memory it no longer owned (life = "corrupt").                   *)
(***************************************************************************)
Outcome(st, list, h, c, l) ==
    [status |-> st, payloads |-> list, heap |-> h, calls |-> c, life |-> l]

ContentAllowed(rule) == rule.encrypted_content

IsLastPayload_Unchecked(payload_number, count) == TRUE

IsLastPayload(payload_number, count) == payload_number = count

SignatureOk_Ignored(st) == TRUE

SignatureOk(st) == st = "SUCCESS"

Mismatch(entry, current_payload_was_encrypted) ==
    entry.encrypted # current_payload_was_encrypted

\* Statuses the pass can end with once current_payload, still pointing to
\* the destroyed Encryption payload, is asked for its type: t is the type
\* read from the freed object.  When the entry of t lets the loop go on, it
\* goes on through an iterator whose element was removed, over payloads the
\* Encryption payload has destroyed, and ends in the loop or in verify().
AfterStaleRead(rule, t) ==
    LET se == get_supported_payload_entry(rule, t)
    IN IF se.status # "SUCCESS"
       THEN {se.status}
       ELSE IF Mismatch(se.entry, TRUE)
            THEN {se.status}
            ELSE {"SUCCESS", "NOT_FOUND", "NOT_SUPPORTED"}

StaleStatuses(rule) == UNION {AfterStaleRead(rule, t) : t \in PayloadTypes}

\* list[payload_number] is an Encryption payload
DecryptEnvelope(x, r, rule, list, h, payload_number) ==
    LET envelope == list[Len(list)]               \* remove_last
        front == SubSeq(list, 1, Len(list) - 1)
        sig == verify_signature(envelope)
        c1 == << Call("set_transforms", "-"), Call("verify_signature", sig) >>
        dec == decrypt(envelope)
        c2 == Append(c1, Call("decrypt", dec))
        inner == InnerPayloads(envelope, Len(h))
        hd == DestroyEnvelope(h, envelope, inner)
    IN IF ~ContentAllowed(rule)
       THEN {Outcome("FAILED", list, h, <<>>, "alive")}
       ELSE IF ~IsLastPayload(payload_number, Len(list))
       THEN {Outcome("FAILED", list, h, <<>>, "alive")}
       ELSE IF ~SignatureOk(sig)
       THEN {Outcome(sig, front, h, c1, "alive")}
       ELSE IF dec # "SUCCESS"
       THEN {Outcome(dec, front, h, c2, "alive")}
       ELSE IF inner = <<>>
       THEN \* iterator->remove on the element remove_last has removed:
            \* without effect, or unlinking one more element; then verify()
            {Outcome(VerifyStatus(x, r, l), l, hd,
                     Append(c2, Call("verify", VerifyStatus(x, r, l))),
                     "corrupt") :
                l \in {front} \cup
                      (IF front = <<>> THEN {}
                       ELSE {SubSeq(front, 1, Len(front) - 1)})}
       ELSE \* iterator->replace on the element remove_last has removed:
            \* lost, or taking effect at the end of the list; the other
            \* inner payloads are appended; the Encryption payload is
            \* destroyed with all of them
            {Outcome(st, l, hd, c2, "corrupt") :
                l \in {front \o Tail(inner), front \o inner},
                st \in StaleStatuses(rule)}

RECURSIVE DecryptLoop(_, _, _, _, _, _)
DecryptLoop(x, r, rule, list, h, payload_number) ==
    IF payload_number > Len(list)
    THEN {Outcome(VerifyStatus(x, r, list), list, h,
                  << Call("verify", VerifyStatus(x, r, list)) >>, "alive")}
    ELSE LET current_payload == list[payload_number]
             se == get_supported_payload_entry(rule, current_payload.type)
             current_payload_was_encrypted == FALSE
         IN IF current_payload.type = "ENCRYPTED"
            THEN DecryptEnvelope(x, r, rule, list, h, payload_number)
            ELSE IF se.status # "SUCCESS"
            THEN {Outcome(se.status, list, h, <<>>, "alive")}
            ELSE IF Mismatch(se.entry, current_payload_was_encrypted)
            THEN \* return status, which get_supported_payload_entry set
                 {Outcome(se.status, list, h, <<>>, "alive")}
            ELSE DecryptLoop(x, r, rule, list, h, payload_number + 1)

decrypt_payloads(x, r, list, h) ==
    LET mr == get_message_rule(x, r)
    IN IF mr.status # "SUCCESS"
       THEN {Outcome(mr.status, list, h, <<>>, "alive")}
       ELSE DecryptLoop(x, r, mr.rule, list, h, 1)

(***************************************************************************)
(* parse_body: the parse loop from first_payload, then the decrypt pass.   *)
(***************************************************************************)
parse_body ==
    /\ UNCHANGED peer
    /\ life = "alive"
    /\ op' = "parse_body"
    /\ out' = NoData
    /\ LET pl == ParseLoop(first_payload, parser, payloads, heap)
       IN /\ parser' = pl.parser
          /\ IF pl.status # "SUCCESS"
             THEN /\ status' = pl.status
                  /\ payloads' = pl.payloads
                  /\ heap' = pl.heap
                  /\ calls' = <<>>
                  /\ life' = life
             ELSE \E o \in decrypt_payloads(exchange_type, is_request,
                                            pl.payloads, pl.heap) :
                      /\ status' = o.status
                      /\ payloads' = o.payloads
                      /\ heap' = o.heap
                      /\ calls' = o.calls
                      /\ life' = o.life
    /\ UNCHANGED << meta, packet, orig >>

(***************************************************************************)
(* destroy: every payload of the list is destroyed, then the list.         *)
(***************************************************************************)
DestroyAll(h, list) ==
    [i \in DOMAIN h |->
        h[i] + Cardinality({k \in DOMAIN list : list[k].id = i})]

destroy ==
    /\ UNCHANGED peer
    /\ life \in {"alive", "corrupt"}
    /\ heap' = DestroyAll(heap, payloads)
    /\ life' = "destroyed"
    /\ UNCHANGED << meta, packet, payloads, parser, op, status, out, calls,
                    orig >>

Next ==
    \/ set_ike_sa_id
    \/ set_message_id
    \/ set_major_version
    \/ set_minor_version
    \/ set_exchange_type
    \/ set_request
    \/ set_source
    \/ set_destination
    \/ add_payload
    \/ generate
    \/ parse_header
    \/ parse_body
    \/ verify
    \/ destroy

Spec == Init /\ [][Next]_vars

(***************************************************************************)
(* A second Message is created from the packet generate handed to the      *)
(* caller; the model follows this Message from here on.  orig keeps what   *)
(* the generating Message held.                                            *)
(***************************************************************************)
receive_generated ==
    /\ UNCHANGED peer
    /\ life = "alive"
    /\ parser.data.empty
    /\ op = "generate"
    /\ status = "SUCCESS"
    /\ major_version' \in UninitByte
    /\ minor_version' \in UninitByte
    /\ exchange_type' = "EXCHANGE_TYPE_UNDEFINED"
    /\ is_request' = TRUE
    /\ ike_sa_id' = NoSaId
    /\ first_payload' = "NO_PAYLOAD"
    /\ message_id' = 0
    /\ packet' = [source |-> TRUE, destination |-> TRUE, data |-> out]
    /\ payloads' = <<>>
    /\ parser' = [data |-> out, pos |-> 0]
    /\ heap' = <<>>
    /\ life' = "alive"
    /\ op' = "create"
    /\ status' = "SUCCESS"
    /\ out' = NoData
    /\ calls' = <<>>
    /\ orig' = orig

NextRT ==
    \/ Next
    \/ receive_generated

SpecRT == Init /\ [][NextRT]_vars

(***************************************************************************)
(* Two Messages in one process.  The caller creates a second Message       *)
(* while the first, on which it has called nothing yet, waits; the model   *)
(* follows the second and peer holds the first.  A crash (life =           *)
(* "crashed") ends the process, and with it every Message of the process.  *)
(***************************************************************************)
This ==
    [major_version |-> major_version, minor_version |-> minor_version,
     first_payload |-> first_payload, exchange_type |-> exchange_type,
     is_request |-> is_request, message_id |-> message_id,
     ike_sa_id |-> ike_sa_id, packet |-> packet, payloads |-> payloads,
     parser |-> parser, heap |-> heap, life |-> life]

message_create_second ==
    /\ peer = NoPeer
    /\ Outbound
    /\ op = "create"
    /\ peer' = This
    /\ major_version' \in UninitByte
    /\ minor_version' \in UninitByte
    /\ exchange_type' = "EXCHANGE_TYPE_UNDEFINED"
    /\ is_request' = TRUE
    /\ ike_sa_id' = NoSaId
    /\ first_payload' = "NO_PAYLOAD"
    /\ message_id' = 0
    /\ packet' = [source |-> FALSE, destination |-> FALSE, data |-> NoData]
    /\ payloads' = <<>>
    /\ parser' = [data |-> NoData, pos |-> 0]
    /\ heap' = <<>>
    /\ life' = "alive"
    /\ op' = "create"
    /\ status' = "SUCCESS"
    /\ out' = NoData
    /\ calls' = <<>>
    /\ orig' = NoOrig

NextTwo ==
    \/ Next
    \/ message_create_second

SpecTwo == Init /\ [][NextTwo]_vars

(***************************************************************************)
(* Vocabulary of the properties.                                           *)
(***************************************************************************)
HasRule(x, r) ==
    \E i \in DOMAIN message_rules :
        message_rules[i].exchange_type = x /\ message_rules[i].is_request = r

RuleOf(x, r) ==
    message_rules[CHOOSE i \in DOMAIN message_rules :
                     /\ message_rules[i].exchange_type = x
                     /\ message_rules[i].is_request = r]

EntriesOf(rule) ==
    {rule.supported_payloads[i] : i \in DOMAIN rule.supported_payloads}

Count(types, t) == Cardinality({k \in DOMAIN types : types[k] = t})

CountsInRange(rule, types) ==
    \A e \in EntriesOf(rule) :
        /\ Count(types, e.payload_type) >= e.min_occurence
        /\ Count(types, e.payload_type) <= e.max_occurence

HasEntry(rule, t) == \E e \in EntriesOf(rule) : e.payload_type = t

MarkedEncrypted(rule, t) ==
    \E e \in EntriesOf(rule) : e.payload_type = t /\ e.encrypted

Select(types, keep(_)) ==
    LET F[k \in 0..Len(types)] ==
            IF k = 0 THEN <<>>
            ELSE IF keep(types[k]) THEN Append(F[k - 1], types[k])
                 ELSE F[k - 1]
    IN F[Len(types)]

CallNames == {calls[k].fn : k \in DOMAIN calls}

\* the parse loop of the last parse_body ran to NO_PAYLOAD
ParseLoopDone ==
    op = "parse_body" /\ status \notin {"PARSE_ERROR", "VERIFY_ERROR"}

RulePresent == HasRule(exchange_type, is_request)

CurrentRule == RuleOf(exchange_type, is_request)

(***************************************************************************)
(* C1.  After a successful generate of a Message whose rule has encrypted  *)
(* content, the outer list is the payloads not marked encrypted, in their  *)
(* order, followed by one Encryption payload holding the payloads marked   *)
(* encrypted, in their order; the header announces the first of them.      *)
(***************************************************************************)
C1_EncryptPassClassifies ==
    (/\ op = "generate" /\ status = "SUCCESS" /\ orig.set
     /\ HasRule(orig.exchange_type, orig.is_request)
     /\ RuleOf(orig.exchange_type, orig.is_request).encrypted_content)
    => LET rule == RuleOf(orig.exchange_type, orig.is_request)
           marked(t) == MarkedEncrypted(rule, t)
           clear(t) == ~MarkedEncrypted(rule, t)
           inside == Select(orig.types, marked)
           outside == Select(orig.types, clear)
       IN IF inside = <<>>
          THEN Types(payloads) \in {outside, Append(outside, "ENCRYPTED")}
          ELSE /\ Types(payloads) = Append(outside, "ENCRYPTED")
               /\ payloads[Len(payloads)].inner = inside
               /\ packet.data.hdr.next = Types(payloads)[1]

(***************************************************************************)
(* C2.  parse_body does not return SUCCESS while a payload of the list has *)
(* a protection state other than the one of its rule entry (runs through   *)
(* freed memory left aside).                                               *)
(***************************************************************************)
C2_ProtectionStateChecked ==
    (op = "parse_body" /\ status = "SUCCESS" /\ life = "alive" /\ RulePresent)
    => \A k \in DOMAIN payloads :
          /\ HasEntry(CurrentRule, payloads[k].type)
          /\ MarkedEncrypted(CurrentRule, payloads[k].type) = payloads[k].enc

(***************************************************************************)
(* C3.  Round trip: parse_header and parse_body of the packet generated    *)
(* from a rule-conformant Message succeed and give back its exchange type, *)
(* direction, message id, IKE SA id and payload types in order.            *)
(***************************************************************************)
Conformant(o) ==
    /\ o.set
    /\ HasRule(o.exchange_type, o.is_request)
    /\ CountsInRange(RuleOf(o.exchange_type, o.is_request), o.types)
    /\ \A k \in DOMAIN o.types :
          HasEntry(RuleOf(o.exchange_type, o.is_request), o.types[k])

C3_RoundTrip ==
    [][(/\ Conformant(orig) /\ ~parser.data.empty
        /\ op = "parse_header" /\ status = "SUCCESS"
        /\ parse_body)
       => /\ status' = "SUCCESS"
          /\ exchange_type' = orig.exchange_type
          /\ is_request' = orig.is_request
          /\ message_id' = orig.message_id
          /\ ike_sa_id' = orig.ike_sa_id
          /\ Types(payloads') = orig.types]_vars

(***************************************************************************)
(* C4.  parse_body of the IKE_AUTH response whose only outer payload is an *)
(* Encryption payload holding ID_r, AUTH, SA, TSi, TSr, with the right     *)
(* transforms, returns SUCCESS and leaves exactly these five payloads.     *)
(***************************************************************************)
IkeAuthResponsePacket ==
    WirePacket("IKE_AUTH", TRUE, "ok", << "ENCRYPTED" >>, IkeAuthRList,
               TRUE, TRUE, "ok")

C4_IkeAuthResponseParse ==
    (/\ op = "parse_body" /\ parser.data = IkeAuthResponsePacket
     /\ exchange_type = "IKE_AUTH")
    => status = "SUCCESS" /\ Types(payloads) = IkeAuthRList

(***************************************************************************)
(* C5.  In the decrypt pass the Encryption payload sees set_transforms,    *)
(* then verify_signature, then decrypt, and decrypt only after a           *)
(* successful verify_signature; when the checksum is wrong parse_body      *)
(* returns verify_signature's INVALID_STATE, the list holds no inner       *)
(* payload and verify() is not run.                                        *)
(***************************************************************************)
C5_MacBeforeDecrypt ==
    op = "parse_body" =>
       /\ \A k \in DOMAIN calls :
             /\ calls[k].fn = "verify_signature"
                => k = 2 /\ calls[1].fn = "set_transforms"
             /\ calls[k].fn = "decrypt"
                => /\ k = 3
                   /\ calls[2].fn = "verify_signature"
                   /\ calls[2].ret = "SUCCESS"
             /\ (calls[k].fn = "verify_signature" /\ calls[k].ret # "SUCCESS")
                => /\ status = calls[k].ret
                   /\ status = "INVALID_STATE"
                   /\ "decrypt" \notin CallNames
                   /\ "verify" \notin CallNames
                   /\ \A j \in DOMAIN payloads : ~payloads[j].enc

C5_Witness ==
    /\ op = "parse_body"
    /\ status = "INVALID_STATE"
    /\ \E k \in DOMAIN calls :
          calls[k].fn = "verify_signature" /\ calls[k].ret = "INVALID_STATE"

(***************************************************************************)
(* C6.  When the parsed list holds a payload whose type has no entry in    *)
(* the rule, parse_body returns NOT_SUPPORTED.                             *)
(***************************************************************************)
C6_ForeignPayloadNotSupported ==
    (/\ ParseLoopDone /\ life = "alive" /\ RulePresent
     /\ \E k \in DOMAIN payloads :
           /\ payloads[k].type # "ENCRYPTED"
           /\ ~HasEntry(CurrentRule, payloads[k].type))
    => status = "NOT_SUPPORTED"

(***************************************************************************)
(* C7.  An Encryption payload that the parse loop delivers anywhere but    *)
(* last, or under a rule without encrypted content, is never checked or    *)
(* decrypted.  Original: parse_body then returns FAILED.  Amended: it      *)
(* returns FAILED when every payload before the first Encryption payload   *)
(* has a rule entry that is not marked encrypted.                          *)
(***************************************************************************)
\* what the parse loop of a parse_body taken now delivers
Parsed == ParseLoop(first_payload, parser, payloads, heap)

FirstEnvelope(types) ==
    CHOOSE i \in DOMAIN types :
        /\ types[i] = "ENCRYPTED"
        /\ \A k \in 1..(i - 1) : types[k] # "ENCRYPTED"

Misplaced(types) ==
    /\ HasEnvelope(types)
    /\ \/ FirstEnvelope(types) < Len(types)
       \/ ~RulePresent
       \/ ~CurrentRule.encrypted_content

ClearBeforeEnvelope(types) ==
    /\ RulePresent
    /\ \A k \in 1..(FirstEnvelope(types) - 1) :
          /\ HasEntry(CurrentRule, types[k])
          /\ ~MarkedEncrypted(CurrentRule, types[k])

NeverOpened ==
    \A k \in DOMAIN calls' :
        calls'[k].fn \notin {"set_transforms", "verify_signature", "decrypt"}

C7_Original ==
    [][(/\ parse_body
        /\ Parsed.status = "SUCCESS"
        /\ Misplaced(Types(Parsed.payloads)))
       => status' = "FAILED" /\ NeverOpened]_vars

C7_MisplacedEnvelope ==
    [][(/\ parse_body
        /\ Parsed.status = "SUCCESS"
        /\ Misplaced(Types(Parsed.payloads)))
       => /\ NeverOpened
          /\ ClearBeforeEnvelope(Types(Parsed.payloads))
             => status' = "FAILED"]_vars

C7_Witness ==
    /\ op = "parse_body"
    /\ status = "FAILED"
    /\ life = "alive"
    /\ calls = <<>>
    /\ Misplaced(Types(payloads))
    /\ ClearBeforeEnvelope(Types(payloads))
    /\ CurrentRule.encrypted_content
    /\ FirstEnvelope(Types(payloads)) < Len(payloads)

(***************************************************************************)
(* C8.  When parse_body returns SUCCESS, the count of every rule entry's   *)
(* type in the list lies between the entry's minimum and maximum.          *)
(***************************************************************************)
C8_SuccessMeansCounted ==
    (op = "parse_body" /\ status = "SUCCESS" /\ life = "alive" /\ RulePresent)
    => CountsInRange(CurrentRule, Types(payloads))

(***************************************************************************)
(* C9.  verify() of a Message that has a rule returns SUCCESS exactly when *)
(* the count of every entry's type is within the entry's bounds, and       *)
(* NOT_SUPPORTED otherwise; it changes neither the list nor the metadata.  *)
(***************************************************************************)
C9_VerifyCounts ==
    [][(verify /\ RulePresent)
       => /\ status' = IF CountsInRange(CurrentRule, Types(payloads))
                       THEN "SUCCESS" ELSE "NOT_SUPPORTED"
          /\ payloads' = payloads
          /\ meta' = meta
          /\ packet' = packet
          /\ heap' = heap]_vars

C9_Witness ==
    /\ op = "verify"
    /\ RulePresent
    /\ Len(payloads) >= 2
    /\ status = "NOT_SUPPORTED"
    /\ \E e \in EntriesOf(CurrentRule) :
          Count(Types(payloads), e.payload_type) > e.max_occurence

(***************************************************************************)
(* C10.  Once the Message is destroyed, every payload object that was      *)
(* added to it or parsed into it has been destroyed exactly once.          *)
(***************************************************************************)
C10_OwnershipConserved ==
    life = "destroyed" => \A id \in DOMAIN heap : heap[id] = 1

(***************************************************************************)
(* C11.  After add_payload and after a successful parse_body every payload *)
(* of the list is a live object whose next type is the type of its         *)
(* successor, NO_PAYLOAD for the last one.                                 *)
(***************************************************************************)
NextOf(list, i) ==
    IF i < Len(list) THEN list[i + 1].type ELSE "NO_PAYLOAD"

Live(p) == p.id \in DOMAIN heap /\ heap[p.id] = 0

C12_FirstPayloadTracksList ==
    (life = "alive" /\ parser.data.empty)
    => first_payload = FirstType(Types(payloads))

(***************************************************************************)
(* C13.  A generate that writes a packet emits the header and then every   *)
(* payload of the outer list once, in list order, each with the type of    *)
(* its successor as next type (NO_PAYLOAD for the last); the header's next *)
(* type is the type of the first payload of the list.                      *)
(***************************************************************************)
Written ==
    \E k \in DOMAIN calls' : calls'[k].fn = "write_to_chunk"

Emitted ==
    Cardinality({k \in DOMAIN calls' : calls'[k].fn = "generate_payload"})

C13_WalkLinksAndEmits ==
    [][(generate /\ Written)
       => LET list == payloads'
              wire == packet'.data
          IN /\ ~wire.empty
             /\ wire.hdr.next = FirstType(Types(list))
             /\ Emitted = Len(list) + 1
             /\ Len(wire.chain) = Len(list)
             /\ \A i \in DOMAIN list :
                   /\ list[i].next = NextOf(list, i)
                   /\ wire.chain[i].next = NextOf(list, i)
                   /\ wire.chain[i].inner = list[i].inner]_vars

C13_Witness ==
    /\ op = "generate"
    /\ status = "SUCCESS"
    /\ Len(packet.data.chain) >= 2
    /\ packet.data.hdr.next = payloads[1].type
    /\ packet.data.chain[1].next = payloads[2].type

(***************************************************************************)
(* C14.  The payloads on the wire after a successful generate, those of an *)
(* Encryption payload taken in its place, are the payloads added, in the   *)
(* order of the add_payload calls.                                         *)
(***************************************************************************)
WireTypes(data) ==
    [i \in DOMAIN data.chain |->
        IF i = 1 THEN data.hdr.next ELSE data.chain[i - 1].next]

RECURSIVE Flattened(_, _)
Flattened(data, i) ==
    IF i > Len(data.chain)
    THEN <<>>
    ELSE (IF WireTypes(data)[i] = "ENCRYPTED" /\ data.chain[i].inner # <<>>
          THEN data.chain[i].inner
          ELSE << WireTypes(data)[i] >>) \o Flattened(data, i + 1)

C14_WireOrderIsInsertionOrder ==
    (op = "generate" /\ status = "SUCCESS" /\ orig.set)
    => Flattened(out, 1) = orig.types

(***************************************************************************)
(* C15.  The packet of a successful generate under a rule with encrypted   *)
(* content has exactly one Encryption payload, as its last payload; it     *)
(* holds the payloads whose entries are marked encrypted, and the others   *)
(* stand before it.                                                        *)
(***************************************************************************)
C15_OneEnvelopeLast ==
    (/\ op = "generate" /\ status = "SUCCESS" /\ orig.set
     /\ HasRule(orig.exchange_type, orig.is_request)
     /\ RuleOf(orig.exchange_type, orig.is_request).encrypted_content
     /\ ~HasEnvelope(orig.types)
     /\ orig.types # <<>>)
    => LET rule == RuleOf(orig.exchange_type, orig.is_request)
           marked(t) == MarkedEncrypted(rule, t)
           clear(t) == ~MarkedEncrypted(rule, t)
           wire == WireTypes(out)
           n == Len(wire)
       IN /\ Count(wire, "ENCRYPTED") = 1
          /\ wire[n] = "ENCRYPTED"
          /\ out.chain[n].inner = Select(orig.types, marked)
          /\ SubSeq(wire, 1, n - 1) = Select(orig.types, clear)

(***************************************************************************)
(* C16.  generate with the exchange type undefined, or the source or the   *)
(* destination unset, returns INVALID_STATE, hands out no packet and       *)
(* leaves the list, first_payload, the metadata, the packet and the        *)
(* payload objects as they were, so that a generate after the caller's     *)
(* fix starts from the state the failed call found.                        *)
(***************************************************************************)
C16_FailedGenerateLeavesMessage ==
    [][(/\ generate
        /\ \/ exchange_type = "EXCHANGE_TYPE_UNDEFINED"
           \/ ~packet.source
           \/ ~packet.destination)
       => /\ status' = "INVALID_STATE"
          /\ out' = NoData
          /\ calls' = <<>>
          /\ payloads' = payloads
          /\ meta' = meta
          /\ packet' = packet
          /\ parser' = parser
          /\ heap' = heap
          /\ life' = life]_vars

C16_Witness ==
    /\ op = "generate"
    /\ status = "INVALID_STATE"
    /\ exchange_type # "EXCHANGE_TYPE_UNDEFINED"
    /\ ~packet.source
    /\ payloads # <<>>
    /\ calls = <<>>

(***************************************************************************)
(* C17.  generate of a Message with exchange type, source and destination  *)
(* set and no IKE SA id returns INVALID_STATE without running the encrypt  *)
(* pass: the Message stays usable and its list is untouched.               *)
(***************************************************************************)
C17_MissingSaIdReported ==
    [][(/\ generate
        /\ exchange_type # "EXCHANGE_TYPE_UNDEFINED"
        /\ packet.source /\ packet.destination
        /\ ike_sa_id.null)
       => /\ status' = "INVALID_STATE"
          /\ life' = "alive"
          /\ payloads' = payloads
          /\ calls' = <<>>]_vars

(***************************************************************************)
(* C18.  Under a rule without encrypted content generate leaves the list   *)
(* as it was, same payload objects in the same order and none added, and   *)
(* the packet it writes announces them in that order, the header the       *)
(* first of them.                                                          *)
(***************************************************************************)
IdsInOrder(list) == [k \in DOMAIN list |-> list[k].id]

C18_EncryptPassNoOp ==
    [][(generate /\ RulePresent /\ ~CurrentRule.encrypted_content /\ Written)
       => /\ Types(payloads') = Types(payloads)
          /\ IdsInOrder(payloads') = IdsInOrder(payloads)
          /\ heap' = heap
          /\ first_payload' = first_payload
          /\ WireTypes(packet'.data) = Types(payloads)
          /\ packet'.data.hdr.next = FirstType(Types(payloads))]_vars

C18_Witness ==
    /\ op = "generate"
    /\ status = "SUCCESS"
    /\ orig.set
    /\ orig.exchange_type = "IKE_SA_INIT"
    /\ orig.is_request
    /\ orig.types = IkeSaInitList
    /\ Types(payloads) = IkeSaInitList
    /\ out.hdr.next = "SECURITY_ASSOCIATION"
    /\ WireTypes(out) = IkeSaInitList

(***************************************************************************)
(* C19.  A parse_body that returns a status other than SUCCESS leaves the  *)
(* payload list and the metadata as they were before the call.             *)
(***************************************************************************)
C19_FailedParseLeavesMessage ==
    [][(parse_body /\ status' # "SUCCESS")
       => payloads' = payloads /\ meta' = meta]_vars

(***************************************************************************)
(* C20.  In the parse loop of parse_body a payload is appended only after  *)
(* its own verify succeeded.  At the first payload whose verify fails,     *)
(* parse_body returns VERIFY_ERROR, that payload is destroyed and not      *)
(* appended, and nothing after it is parsed; at the first payload the      *)
(* parser cannot parse, parse_body returns the parser's status.            *)
(***************************************************************************)
\* the first unit of the packet that is malformed or invalid, 0 if none
FirstDefect(data) ==
    IF \E i \in DOMAIN data.chain : data.chain[i].ok # "ok"
    THEN CHOOSE i \in DOMAIN data.chain :
            /\ data.chain[i].ok # "ok"
            /\ \A k \in 1..(i - 1) : data.chain[k].ok = "ok"
    ELSE 0

C20_PayloadVerifiedBeforeAppend ==
    [][(/\ parse_body
        /\ op = "parse_header" /\ status = "SUCCESS"
        /\ FirstDefect(parser.data) > 0)
       => LET d == FirstDefect(parser.data)
              wire == WireTypes(parser.data)
          IN /\ Types(payloads') = SubSeq(wire, 1, d - 1)
             /\ \A k \in DOMAIN payloads' : heap'[payloads'[k].id] = 0
             /\ IF parser.data.chain[d].ok = "invalid"
                THEN /\ status' = "VERIFY_ERROR"
                     /\ Len(heap') = d
                     /\ heap'[d] = 1
                     /\ parser'.pos = d + 1
                ELSE /\ status' = "PARSE_ERROR"
                     /\ Len(heap') = d - 1
                     /\ parser'.pos = d]_vars

C20_Witness ==
    /\ op = "parse_body"
    /\ status = "VERIFY_ERROR"
    /\ Len(payloads) >= 1
    /\ Len(heap) = Len(payloads) + 1
    /\ heap[Len(heap)] = 1
    /\ parser.pos = Len(heap) + 1

(***************************************************************************)
(* C21.  get_message_rule returns SUCCESS with the one record of the table *)
(* that has the Message's exchange type and direction, NOT_FOUND with the  *)
(* NULL rule when there is none.  Original: verify, parse_body and a       *)
(* generate past its INVALID_STATE checks then return NOT_FOUND and leave  *)
(* the list unchanged.  Amended: verify and generate do; parse_body        *)
(* returns NOT_FOUND once its parse loop has reached NO_PAYLOAD, with the  *)
(* payloads the loop appended in the list and no Encryption payload        *)
(* opened.                                                                 *)
(***************************************************************************)
Matching(x, r) ==
    {i \in DOMAIN message_rules :
        /\ message_rules[i].exchange_type = x
        /\ message_rules[i].is_request = r}

LookupCorrect ==
    \A x \in ExchangeTypes, r \in BOOLEAN :
        /\ Cardinality(Matching(x, r)) <= 1
        /\ IF Matching(x, r) = {}
           THEN get_message_rule(x, r) =
                   [status |-> "NOT_FOUND", rule |-> NullRule]
           ELSE /\ get_message_rule(x, r).status = "SUCCESS"
                /\ \E i \in Matching(x, r) :
                      get_message_rule(x, r).rule = message_rules[i]

NoRule ==
    exchange_type \in
        {"CREATE_CHILD_SA", "INFORMATIONAL", "EXCHANGE_TYPE_UNDEFINED"}

ChecksPassed ==
    exchange_type # "EXCHANGE_TYPE_UNDEFINED" /\ ~EndpointsUnset(packet)

NotFoundListKept == status' = "NOT_FOUND" /\ payloads' = payloads

C22_NewMessageDefaults ==
    op = "create"
    => /\ major_version = 2
       /\ minor_version = 0
       /\ exchange_type = "EXCHANGE_TYPE_UNDEFINED"
       /\ message_id = 0
       /\ ike_sa_id.null
       /\ payloads = <<>>
       /\ first_payload = "NO_PAYLOAD"

(***************************************************************************)
(* C23.  Every rule of the table requires some payload, and a Message with *)
(* a rule and an empty list is rejected with NOT_SUPPORTED: by verify(),   *)
(* and by parse_body when the parsed header announced NO_PAYLOAD.          *)
(***************************************************************************)
EveryRuleRequiresSome ==
    \A i \in DOMAIN message_rules :
        \E e \in EntriesOf(message_rules[i]) : e.min_occurence >= 1

C23_EmptyMessageRejected ==
    [][/\ EveryRuleRequiresSome
       /\ (verify /\ RulePresent /\ payloads = <<>>)
          => status' = "NOT_SUPPORTED"
       /\ (/\ parse_body /\ RulePresent /\ payloads = <<>>
           /\ op = "parse_header" /\ status = "SUCCESS"
           /\ first_payload = "NO_PAYLOAD")
          => status' = "NOT_SUPPORTED" /\ payloads' = <<>>]_vars

C23_Witness ==
    /\ op = "parse_body"
    /\ status = "NOT_SUPPORTED"
    /\ RulePresent
    /\ payloads = <<>>
    /\ ~parser.data.empty
    /\ parser.data.hdr.next = "NO_PAYLOAD"
    /\ calls = << Call("verify", "NOT_SUPPORTED") >>

(***************************************************************************)
(* C24.  A generate that writes a packet runs the encrypt pass, emits the  *)
(* header and the payloads, writes the buffer, then calls build_signature, *)
(* then clones.  build_signature is called exactly when the last payload   *)
(* of the outer list is an Encryption payload; when it fails generate      *)
(* returns its status and hands out nothing; on SUCCESS the caller gets a  *)
(* copy of the packet the Message keeps.                                   *)
(***************************************************************************)
Rank(fn) ==
    CASE fn \in {"set_transforms", "encrypt"} -> 1
      [] fn = "generate_payload" -> 2
      [] fn = "write_to_chunk" -> 3
      [] fn = "build_signature" -> 4
      [] fn = "clone" -> 5
      [] OTHER -> 0

C24_GenerateStepOrder ==
    [][(generate /\ Written)
       => LET c == calls'
              n == Len(payloads')
              signed == \E k \in DOMAIN c : c[k].fn = "build_signature"
              cloned == \E k \in DOMAIN c : c[k].fn = "clone"
          IN /\ \A j, k \in DOMAIN c :
                   j < k => Rank(c[j].fn) <= Rank(c[k].fn)
             /\ signed <=> (n > 0 /\ payloads'[n].type = "ENCRYPTED")
             /\ \A k \in DOMAIN c :
                   (c[k].fn = "build_signature" /\ c[k].ret # "SUCCESS")
                   => status' = c[k].ret /\ out' = NoData /\ ~cloned
             /\ status' = "SUCCESS"
                => cloned /\ out' = packet'.data /\ ~out'.empty]_vars

(***************************************************************************)
(* C25.  When parse_body has bound an Encryption payload to the crypter    *)
(* and signer of the call, that payload does not outlive the call: by the  *)
(* return every payload object not in the list is destroyed, and no        *)
(* Encryption payload of the list is bound to transforms.                  *)
(***************************************************************************)
C25_TransformsNotRetained ==
    (op = "parse_body" /\ "set_transforms" \in CallNames)
    => /\ \A id \in DOMAIN heap : heap[id] = 0 => id \in Ids(payloads)
       /\ \A k \in DOMAIN payloads :
             payloads[k].type = "ENCRYPTED" => ~payloads[k].tf

(***************************************************************************)
(* C26.  parse_header never touches the payload list.  On SUCCESS the      *)
(* exchange type, message id, direction (request unless the response flag  *)
(* is set), versions, first_payload and IKE SA id are those of the parsed  *)
(* header; on any other status, which is the parser's or the header        *)
(* verify's, none of them has changed.                                     *)
(***************************************************************************)
C26_ParseHeaderEffect ==
    [][parse_header
       => LET h == parser.data.hdr
          IN /\ payloads' = payloads
             /\ heap' = heap
             /\ IF status' = "SUCCESS"
                THEN /\ exchange_type' = h.exchange_type
                     /\ message_id' = h.message_id
                     /\ is_request' = ~h.response_flag
                     /\ major_version' = h.maj_version
                     /\ minor_version' = h.min_version
                     /\ first_payload' = h.next
                     /\ ike_sa_id' = [initiator_spi |-> h.initiator_spi,
                                      responder_spi |-> h.responder_spi,
                                      is_initiator |-> h.initiator_flag,
                                      null |-> FALSE]
                ELSE /\ meta' = meta
                     /\ status' = IF HeaderParses(parser.data)
                                  THEN HeaderVerify(h)
                                  ELSE "PARSE_ERROR"]_vars

C26_Witness ==
    /\ op = "parse_header"
    /\ status = "SUCCESS"
    /\ ~is_request
    /\ parser.data.hdr.response_flag
    /\ exchange_type = "IKE_AUTH"
    /\ first_payload = "ENCRYPTED"
    /\ ~ike_sa_id.null
    /\ payloads = <<>>

(***************************************************************************)
(* C27.  Every call of generate and of parse_body runs to completion and   *)
(* hands a status back to its caller.                                      *)
(***************************************************************************)
C27_CallsReturnStatus ==
    op \in {"generate", "parse_body"}
        => status \in Statuses /\ life # "crashed"

Unlisted(list) ==
    SelectSeq(list, LAMBDA p :
        get_supported_payload_entry(CurrentRule, p.type).status # "SUCCESS")

KeptOf(list, kept) ==
    SelectSeq(list, LAMBDA p : p.id \in Ids(kept))

C29_UnlistedStaysOutside ==
    [][(/\ generate
        /\ ChecksPassed
        /\ ~ike_sa_id.null
        /\ RulePresent
        /\ CurrentRule.encrypted_content
        /\ Unlisted(payloads) # <<>>)
       => /\ Written
          /\ IdsInOrder(KeptOf(payloads', Unlisted(payloads)))
                = IdsInOrder(Unlisted(payloads))]_vars

(***************************************************************************)
(* C30.  A generate that directly follows a successful generate of the     *)
(* same Message returns SUCCESS again, writes the same outer payload       *)
(* sequence, and leaves the list the first call left as it is.             *)
(***************************************************************************)
Regenerated == generate /\ op = "generate" /\ status = "SUCCESS"

C30_GenerateRepeatable ==
    [][Regenerated
       => /\ status' = "SUCCESS"
          /\ WireTypes(packet'.data) = WireTypes(packet.data)
          /\ IdsInOrder(payloads') = IdsInOrder(payloads)
          /\ Types(payloads') = Types(payloads)]_vars

(***************************************************************************)
(* C31.  On a Message created from a packet, only a successful             *)
(* parse_header sets the IKE SA id, and until then the exchange type is    *)
(* undefined and first_payload is NO_PAYLOAD.  parse_body called before    *)
(* that parses nothing, leaves the list empty and returns NOT_FOUND; a     *)
(* parse_body that returns SUCCESS is preceded by a successful             *)
(* parse_header.                                                           *)
(***************************************************************************)
FromPacket == ~parser.data.empty

HeaderPending == FromPacket /\ ike_sa_id.null

====
